---- MODULE Spec2Model ----
(***************************************************************************)
(* Model of the FRN session object QsoFrn                                  *)
(* (src/src/svxlink/modules/frn/QsoFrn.cpp).                               *)
(*                                                                         *)
(* Every member function is an operator from a session record to a session *)
(* record, so that a handler calling another handler is operator           *)
(* composition, exactly as in the code.  An action applies one public      *)
(* operation or one callback of the event loop to the current state.       *)
(* The field fx of the record is the sequence of externally visible        *)
(* effects (transport calls, timer calls, sink/source signals, state       *)
(* changes) of the handler that ran last, in program order.                *)
(***************************************************************************)
EXTENDS Integers, Sequences, FiniteSets, TLC

VARIABLES
  cfg,                \* set of configuration keys that are set (module->cfg())
  init_ok,            \* QsoFrn::init_ok
  signals_connected,  \* the tcp/timer signals are wired to the handlers
  state,              \* QsoFrn::state
  connect_retry_cnt,  \* QsoFrn::connect_retry_cnt
  send_buffer_cnt,    \* QsoFrn::send_buffer_cnt
  send_buffer,        \* QsoFrn::send_buffer (int16 samples)
  is_sending_voice,   \* QsoFrn::is_sending_voice
  is_receiving_voice, \* QsoFrn::is_receiving_voice
  keep_alive_timer,   \* keep_alive_timer is enabled
  con_timeout_timer,  \* con_timeout_timer is enabled
  tcp,                \* tcp_client: "idle", "connecting" or "connected"
  gsmh,               \* QsoFrn::gsmh, the state of the codec context
  fx,                 \* effects of the last handler, in program order
  ret,                \* value returned by the last handler (writeSamples)
  op,                 \* the last operation and its input
  streak,             \* transient failures since the last connect success
  accepted,           \* float samples accepted into send_buffer, not yet sent
  tx_open             \* a voice payload was written and no TX0 since

vars == <<cfg, init_ok, signals_connected, state, connect_retry_cnt,
          send_buffer_cnt, send_buffer, is_sending_voice, is_receiving_voice,
          keep_alive_timer, con_timeout_timer, tcp, gsmh, fx, ret, op,
          streak, accepted, tx_open>>

----------------------------------------------------------------------------
(* Constants of QsoFrn.h.  The frame count, the frame size in samples and  *)
(* the retry ceiling are scaled down to the smallest values that keep the  *)
(* structure (several frames per buffer, two halves per frame, more than   *)
(* one retry); GSM_FRAME_SIZE is the 32 + 33 bytes of one WAV49 pair.      *)

FRAME_COUNT == 2

PCM_FRAME_SIZE == 2

GSM_FRAME_SIZE == 65

MAX_CONNECT_RETRY_CNT == 2

BUFFER_SIZE == FRAME_COUNT * PCM_FRAME_SIZE

FRN_AUDIO_PACKET_SIZE == FRAME_COUNT * GSM_FRAME_SIZE

(* Bounds of the exploration. *)

\* connect_retry_cnt is followed up to MaxRetryExtra beyond the ceiling
MaxRetryExtra == 1

MaxRetryCnt == MAX_CONNECT_RETRY_CNT + MaxRetryExtra

\* how many samples beyond BUFFER_SIZE one writeSamples call may carry
MaxExtra == 1

MaxCount == BUFFER_SIZE + MaxExtra

\* input samples are SampleDen-ths of full scale: n stands for n / SampleDen
SampleDen == 2

InSamples == {1}

States == {"DISCONNECTED", "CONNECTING", "CONNECTED", "LOGGING_IN",
           "LOGGING_IN_2", "LOGGED_IN", "ERROR"}

Reasons == {"DR_HOST_NOT_FOUND", "DR_REMOTE_DISCONNECTED", "DR_SYSTEM_ERROR",
            "DR_RECV_BUFFER_OVERFLOW", "DR_ORDERED_DISCONNECT", "DR_UNKNOWN"}

InfoCmds == {"DT_CLIENT_LIST", "DT_TEXT_MESSAGE", "DT_NET_NAMES",
             "DT_ADMIN_LIST", "DT_ACCESS_LIST", "DT_BLOCK_LIST",
             "DT_MUTE_LIST", "DT_ACCESS_MODE"}

\* first byte of an inbound message; "DT_OTHER" is any byte that is no code
Cmds == {"DT_IDLE", "DT_DO_TX", "DT_VOICE_BUFFER", "DT_OTHER"} \cup InfoCmds

\* lengths of inbound messages
Lens == {1, FRN_AUDIO_PACKET_SIZE + 3 - 1, FRN_AUDIO_PACKET_SIZE + 3,
         FRN_AUDIO_PACKET_SIZE + 3 + 1}

\* the configuration variables, in the order the constructor reads them
CfgOrder == <<"SERVER", "PORT", "EMAIL_ADDRESS", "DYN_PASSWORD",
              "CALLSIGN_AND_USER", "CLIENT_TYPE", "BAND_AND_CHANNEL",
              "DESCRIPTION", "COUNTRY", "CITY_CITY_PART", "NET", "VERSION">>

CfgKeys == {CfgOrder[i] : i \in 1..Len(CfgOrder)}

----------------------------------------------------------------------------
(* Effects *)

Fx(k, rq, n, data) == [k |-> k, rq |-> rq, n |-> n, data |-> data]

Emit(s, e) == [s EXCEPT !.fx = Append(@, e)]

Min(a, b) == IF a < b THEN a ELSE b

\* C++ conversion of a value to an integer type truncates towards zero
Trunc(a, b) == IF a >= 0 THEN a \div b ELSE -((-a) \div b)

Zeros(n) == [i \in 1..n |-> 0]

----------------------------------------------------------------------------
(* The transport (Async::TcpClient), as the session uses it *)

tcp_isConnected(s) == s.tcp = "connected"

\* a connect of a client that is connecting or connected is ignored
tcp_connect(s) ==
  Emit([s EXCEPT !.tcp = IF @ = "idle" THEN "connecting" ELSE @],
       Fx("tcp_connect", "", 0, <<>>))

tcp_disconnect(s) ==
  Emit([s EXCEPT !.tcp = "idle"], Fx("tcp_disconnect", "", 0, <<>>))

tcp_write(s, rq, n, data) == Emit(s, Fx("tcp_write", rq, n, data))

----------------------------------------------------------------------------
(* The codec (libgsm) in WAV49 mode.  A context is stateful: a call leaves *)
(* in it the filter memory of the frame it processed and toggles the index *)
(* of the frame within the WAV49 pair.  The model keeps of that state the  *)
(* index and the kind of the call that wrote the memory last.              *)

gsm_create == [frame_index |-> 0, last |-> "none"]

\* bytes gsm_encode writes: the first frame of a WAV49 pair gives 32 bytes
\* and keeps 4 bits in the context, the second gives 33
gsm_encode_size(frame_index) == IF frame_index = 0 THEN 32 ELSE 33

\* bytes gsm_decode reads: 33 for the first frame of a pair, 32 for the
\* second
gsm_decode_size(frame_index) == IF frame_index = 0 THEN 33 ELSE 32

\* encodes PCM_FRAME_SIZE / 2 samples at src into the bytes at dst
gsm_encode(s, src, dst) ==
  Emit([s EXCEPT !.gsmh = [frame_index |-> 1 - @.frame_index,
                           last |-> "encode"]],
       Fx("gsm_encode", "", dst,
          <<src, gsm_encode_size(s.gsmh.frame_index)>>))

\* decodes the bytes at src into PCM_FRAME_SIZE / 2 samples at dst
gsm_decode(s, src, dst) ==
  Emit([s EXCEPT !.gsmh = [frame_index |-> 1 - @.frame_index,
                           last |-> "decode"]],
       Fx("gsm_decode", "", src,
          <<dst, gsm_decode_size(s.gsmh.frame_index)>>))

----------------------------------------------------------------------------
(* Private member functions *)

setState(s, newState) ==
  IF newState # s.state
    THEN Emit([s EXCEPT !.state = newState],
              Fx("stateChange", newState, 0, <<>>))
    ELSE s

keep_alive_setEnable(s, b) ==
  Emit([s EXCEPT !.keep_alive_timer = b],
       Fx(IF b THEN "keep_alive_enable" ELSE "keep_alive_disable", "", 0, <<>>))

con_timeout_setEnable(s, b) ==
  Emit([s EXCEPT !.con_timeout_timer = b],
       Fx(IF b THEN "con_timeout_enable" ELSE "con_timeout_disable", "", 0,
          <<>>))

con_timeout_reset(s) == Emit(s, Fx("con_timeout_reset", "", 0, <<>>))

\* the tagged fields of the login request, in the order they are streamed
LoginFields == << <<"VX", "VERSION">>, <<"EA", "EMAIL_ADDRESS">>,
                  <<"PW", "DYN_PASSWORD">>, <<"ON", "CALLSIGN_AND_USER">>,
                  <<"CL", "CLIENT_TYPE">>, <<"BC", "BAND_AND_CHANNEL">>,
                  <<"DS", "DESCRIPTION">>, <<"NN", "COUNTRY">>,
                  <<"CT", "CITY_CITY_PART">>, <<"NT", "NET">> >>

\* login streaming the credential before the email address
login_swapped(s) ==
  LET s1 == setState(s, "LOGGING_IN")
      f  == LoginFields
  IN  tcp_write(s1, "login", 0,
                <<f[1], f[3], f[2]>> \o SubSeq(f, 4, Len(f)))

login(s) ==
  LET s1 == setState(s, "LOGGING_IN")
  IN  tcp_write(s1, "login", 0, LoginFields)

RequestToken(rq) ==
  CASE rq = "RQ_RX0" -> "RX0"
    [] rq = "RQ_TX0" -> "TX0"
    [] rq = "RQ_TX1" -> "TX1"
    [] rq = "RQ_P"   -> "P"
    [] OTHER         -> ""

sendRequest(s, rq) ==
  IF RequestToken(rq) = ""
    THEN s
    ELSE IF tcp_isConnected(s)
           THEN tcp_write(s, RequestToken(rq), Len(RequestToken(rq)) + 1, <<>>)
           ELSE s

\* the for loop of sendVoiceData with the second half written at dst + 33
RECURSIVE EncodeFrames_33(_, _)
EncodeFrames_33(s, nframe) ==
  IF nframe < FRAME_COUNT
    THEN LET src == nframe * PCM_FRAME_SIZE
             dst == nframe * GSM_FRAME_SIZE
             s1  == gsm_encode(s, src, dst)
             s2  == gsm_encode(s1, src + PCM_FRAME_SIZE \div 2, dst + 33)
         IN  EncodeFrames_33(s2, nframe + 1)
    ELSE s

\* the for loop of sendVoiceData: two gsm_encode calls for each frame
RECURSIVE EncodeFrames(_, _)
EncodeFrames(s, nframe) ==
  IF nframe < FRAME_COUNT
    THEN LET src == nframe * PCM_FRAME_SIZE
             dst == nframe * GSM_FRAME_SIZE
             s1  == gsm_encode(s, src, dst)
             s2  == gsm_encode(s1, src + PCM_FRAME_SIZE \div 2, dst + 32)
         IN  EncodeFrames(s2, nframe + 1)
    ELSE s

\* sendVoiceData writing the payload before the start-transmit token
sendVoiceData_late_tx1(s) ==
  LET nbytes == FRAME_COUNT * GSM_FRAME_SIZE
      s0 == EncodeFrames(s, 0)
      s1 == tcp_write(s0, "voice", nbytes, s.send_buffer)
      s2 == sendRequest(s1, "RQ_TX1")
  IN  [s2 EXCEPT !.send_buffer_cnt = 0]

\* the payload is the encoding of the whole send_buffer, FRAME_COUNT units
sendVoiceData(s) ==
  LET nbytes == FRAME_COUNT * GSM_FRAME_SIZE
      s0 == EncodeFrames(s, 0)
      s1 == sendRequest(s0, "RQ_TX1")
      s2 == tcp_write(s1, "voice", nbytes, s.send_buffer)
  IN  [s2 EXCEPT !.send_buffer_cnt = 0]

connect(s) ==
  LET s1 == setState(s, "CONNECTING")
  IN  tcp_connect(s1)

\* disconnect closing the transport before the timers are disabled
disconnect_tcp_first(s) ==
  LET s1 == setState(s, "DISCONNECTED")
      s2 == IF tcp_isConnected(s1) THEN tcp_disconnect(s1) ELSE s1
      s3 == keep_alive_setEnable(s2, FALSE)
  IN  con_timeout_setEnable(s3, FALSE)

disconnect(s) ==
  LET s1 == setState(s, "DISCONNECTED")
      s2 == keep_alive_setEnable(s1, FALSE)
      s3 == con_timeout_setEnable(s2, FALSE)
  IN  IF tcp_isConnected(s3) THEN tcp_disconnect(s3) ELSE s3

\* reconnect comparing with <= : one attempt more before giving up
reconnect_le(s) ==
  LET s1 == [s EXCEPT !.connect_retry_cnt = @ + 1]
  IN  IF s.connect_retry_cnt <= MAX_CONNECT_RETRY_CNT
        THEN connect(s1)
        ELSE setState(s1, "ERROR")

\* reconnect comparing the counter after the increment
reconnect_pre(s) ==
  LET s1 == [s EXCEPT !.connect_retry_cnt = @ + 1]
  IN  IF s1.connect_retry_cnt < MAX_CONNECT_RETRY_CNT
        THEN connect(s1)
        ELSE setState(s1, "ERROR")

\* reconnect starting the count afresh with every attempt
reconnect_reset(s) ==
  IF s.connect_retry_cnt < MAX_CONNECT_RETRY_CNT
    THEN connect([s EXCEPT !.connect_retry_cnt = 0])
    ELSE setState([s EXCEPT !.connect_retry_cnt = @ + 1], "ERROR")

reconnect(s) ==
  LET s1 == [s EXCEPT !.connect_retry_cnt = @ + 1]
  IN  IF s.connect_retry_cnt < MAX_CONNECT_RETRY_CNT
        THEN connect(s1)
        ELSE setState(s1, "ERROR")

\* what a sample of receive_buffer holds after a decode: the sub-frame it
\* was decoded from, numbered by the offset of the sub-frame in the payload
Decoded(src) == src

\* receive_buffer after gsm_decode wrote PCM_FRAME_SIZE / 2 samples at dst
StoreDecoded(rb, src, dst) ==
  [i \in 0..(BUFFER_SIZE - 1) |->
     IF i >= dst /\ i < dst + PCM_FRAME_SIZE \div 2
       THEN Decoded(src) ELSE rb[i]]

\* handleAudioData reading every block from the start of receive_buffer
RECURSIVE DecodeFrames_nostep(_, _, _, _)
DecodeFrames_nostep(s, rb, pcm, frameno) ==
  IF frameno < FRAME_COUNT
    THEN LET src == 3 + frameno * GSM_FRAME_SIZE
             dst == frameno * PCM_FRAME_SIZE
             s1  == gsm_decode(s, src, dst)
             rb1 == StoreDecoded(rb, src, dst)
             s2  == gsm_decode(s1, src + 33, dst + PCM_FRAME_SIZE \div 2)
             rb2 == StoreDecoded(rb1, src + 33, dst + PCM_FRAME_SIZE \div 2)
             pcm_samples == [i \in 1..PCM_FRAME_SIZE |-> rb2[i - 1]]
             s3  == Emit(s2, Fx("sinkWriteSamples", "", PCM_FRAME_SIZE,
                                pcm_samples))
         IN  DecodeFrames_nostep(s3, rb2, pcm, frameno + 1)
    ELSE s

\* the for loop of handleAudioData; pcm is the offset of pcm_buffer in
\* receive_buffer, rb the content of receive_buffer
RECURSIVE DecodeFrames(_, _, _, _)
DecodeFrames(s, rb, pcm, frameno) ==
  IF frameno < FRAME_COUNT
    THEN LET src == 3 + frameno * GSM_FRAME_SIZE
             dst == pcm
             s1  == gsm_decode(s, src, dst)
             rb1 == StoreDecoded(rb, src, dst)
             s2  == gsm_decode(s1, src + 33, dst + PCM_FRAME_SIZE \div 2)
             rb2 == StoreDecoded(rb1, src + 33, dst + PCM_FRAME_SIZE \div 2)
             pcm_samples == [i \in 1..PCM_FRAME_SIZE |-> rb2[pcm + i - 1]]
             s3  == Emit(s2, Fx("sinkWriteSamples", "", PCM_FRAME_SIZE,
                                pcm_samples))
         IN  DecodeFrames(s3, rb2, pcm + PCM_FRAME_SIZE, frameno + 1)
    ELSE s

handleAudioData(s, msg) ==
  IF msg.len # FRN_AUDIO_PACKET_SIZE + 3
    THEN s
    ELSE DecodeFrames(s, [i \in 0..(BUFFER_SIZE - 1) |-> -1], 0, 0)

\* handleResponse taking an unknown command as fatal
handleResponse_strict(s, msg) ==
  CASE msg.cmd = "DT_IDLE" -> s
    [] msg.cmd = "DT_DO_TX" ->
         Emit([s EXCEPT !.is_sending_voice = TRUE],
              Fx("sourceResumeOutput", "", 0, <<>>))
    [] msg.cmd = "DT_VOICE_BUFFER" ->
         handleAudioData([s EXCEPT !.is_receiving_voice = TRUE], msg)
    [] msg.cmd \in InfoCmds -> s
    [] OTHER -> setState(s, "ERROR")

handleResponse(s, msg) ==
  CASE msg.cmd = "DT_IDLE" -> s
    [] msg.cmd = "DT_DO_TX" ->
         Emit([s EXCEPT !.is_sending_voice = TRUE],
              Fx("sourceResumeOutput", "", 0, <<>>))
    [] msg.cmd = "DT_VOICE_BUFFER" ->
         handleAudioData([s EXCEPT !.is_receiving_voice = TRUE], msg)
    [] msg.cmd \in InfoCmds -> s
    [] OTHER -> s

----------------------------------------------------------------------------
(* Public member functions *)

\* the constructor: the state after construction with configuration c.
\* It returns at the first variable that is not set, before the signals are
\* connected and before the timers, which are created running, are disabled.
QsoFrn(c) ==
  LET complete == \A i \in 1..Len(CfgOrder) : CfgOrder[i] \in c
  IN  [init_ok            |-> complete,
       signals_connected  |-> complete,
       state              |-> "DISCONNECTED",
       connect_retry_cnt  |-> 0,
       send_buffer_cnt    |-> 0,
       send_buffer        |-> Zeros(BUFFER_SIZE),
       is_sending_voice   |-> FALSE,
       is_receiving_voice |-> FALSE,
       keep_alive_timer   |-> ~complete,
       con_timeout_timer  |-> ~complete,
       tcp                |-> "idle",
       gsmh               |-> gsm_create,
       fx                 |-> <<>>,
       ret                |-> 0]

initOk(s) == s.init_ok

\* one sample of the input converted to the 16 bit sample that is stored
ToInt16(sample) ==
  IF sample > SampleDen THEN 32767
  ELSE IF sample < -SampleDen THEN -32767
  ELSE Trunc(32767 * sample, SampleDen)

\* the for loop of writeSamples storing from the start of send_buffer
CopySamples_fromstart(s, samples, samples_read, read_cnt) ==
  [s EXCEPT
     !.send_buffer = [i \in 1..BUFFER_SIZE |->
        IF i <= read_cnt THEN ToInt16(samples[samples_read + i]) ELSE @[i]],
     !.send_buffer_cnt = @ + read_cnt]

\* the for loop of writeSamples: read_cnt samples from samples_read on
CopySamples(s, samples, samples_read, read_cnt) ==
  [s EXCEPT
     !.send_buffer = [i \in 1..BUFFER_SIZE |->
        IF i > s.send_buffer_cnt /\ i <= s.send_buffer_cnt + read_cnt
          THEN ToInt16(samples[samples_read + (i - s.send_buffer_cnt)])
          ELSE @[i]],
     !.send_buffer_cnt = @ + read_cnt]

\* the loop of writeSamples sending a full buffer without authorization
RECURSIVE writeLoop_noauth(_, _, _)
writeLoop_noauth(s, samples, samples_read) ==
  IF samples_read < Len(samples)
    THEN LET read_cnt == Min(BUFFER_SIZE - s.send_buffer_cnt,
                             Len(samples) - samples_read)
             s1 == CopySamples(s, samples, samples_read, read_cnt)
         IN  IF s1.send_buffer_cnt = BUFFER_SIZE
               THEN writeLoop_noauth(sendVoiceData(s1), samples,
                                     samples_read + read_cnt)
               ELSE writeLoop_noauth(s1, samples, samples_read + read_cnt)
    ELSE [s EXCEPT !.ret = samples_read]

RECURSIVE writeLoop(_, _, _)
writeLoop(s, samples, samples_read) ==
  IF samples_read < Len(samples)
    THEN LET read_cnt == Min(BUFFER_SIZE - s.send_buffer_cnt,
                             Len(samples) - samples_read)
             s1 == CopySamples(s, samples, samples_read, read_cnt)
         IN  IF s1.send_buffer_cnt = BUFFER_SIZE
               THEN IF s1.is_sending_voice
                      THEN writeLoop(sendVoiceData(s1), samples,
                                     samples_read + read_cnt)
                      ELSE [s1 EXCEPT !.ret = samples_read + read_cnt]
               ELSE writeLoop(s1, samples, samples_read + read_cnt)
    ELSE [s EXCEPT !.ret = samples_read]

\* writeSamples without the check of the session state
writeSamples_nogate(s, samples) == writeLoop(s, samples, 0)

writeSamples(s, samples) ==
  IF s.state # "LOGGED_IN"
    THEN [s EXCEPT !.ret = Len(samples)]
    ELSE writeLoop(s, samples, 0)

\* flushSamples without the memset of the unused part of the buffer
flushSamples_nopad(s) ==
  LET s1 == IF s.state = "LOGGED_IN" /\ s.send_buffer_cnt > 0
              THEN LET p  == [s EXCEPT !.send_buffer_cnt = BUFFER_SIZE]
                       p1 == sendVoiceData(p)
                       p2 == sendRequest(p1, "RQ_TX0")
                   IN  [p2 EXCEPT !.is_sending_voice = FALSE]
              ELSE s
  IN  Emit(s1, Fx("sourceAllSamplesFlushed", "", 0, <<>>))

flushSamples(s) ==
  LET s1 == IF s.state = "LOGGED_IN" /\ s.send_buffer_cnt > 0
              THEN LET p  == [s EXCEPT
                                !.send_buffer = [i \in 1..BUFFER_SIZE |->
                                   IF i > s.send_buffer_cnt THEN 0 ELSE @[i]],
                                !.send_buffer_cnt = BUFFER_SIZE]
                       p1 == sendVoiceData(p)
                       p2 == sendRequest(p1, "RQ_TX0")
                   IN  [p2 EXCEPT !.is_sending_voice = FALSE]
              ELSE s
  IN  Emit(s1, Fx("sourceAllSamplesFlushed", "", 0, <<>>))

\* squelchOpen sending the token only when samples are buffered
squelchOpen_nonempty(s, is_open) ==
  IF is_open /\ s.send_buffer_cnt > 0 THEN sendRequest(s, "RQ_TX0") ELSE s

squelchOpen(s, is_open) ==
  IF is_open THEN sendRequest(s, "RQ_TX0") ELSE s

----------------------------------------------------------------------------
(* Callbacks of the transport and of the timers *)

\* onConnected logging in without starting con_timeout_timer
onConnected_nowatchdog(s) ==
  LET s1 == setState(s, "CONNECTED")
      s2 == [s1 EXCEPT !.connect_retry_cnt = 0]
  IN  login(s2)

onConnected(s) ==
  LET s1 == setState(s, "CONNECTED")
      s2 == [s1 EXCEPT !.connect_retry_cnt = 0]
      s3 == con_timeout_setEnable(s2, TRUE)
  IN  login(s3)

\* onDisconnected retrying after an overflow of the receive buffer
onDisconnected_retry_overflow(s, reason) ==
  LET s1 == setState(s, "DISCONNECTED")
      s2 == keep_alive_setEnable(s1, FALSE)
      s3 == con_timeout_setEnable(s2, FALSE)
  IN  CASE reason = "DR_HOST_NOT_FOUND"       -> setState(s3, "ERROR")
        [] reason = "DR_REMOTE_DISCONNECTED"  -> reconnect(s3)
        [] reason = "DR_SYSTEM_ERROR"         -> reconnect(s3)
        [] reason = "DR_RECV_BUFFER_OVERFLOW" -> reconnect(s3)
        [] reason = "DR_ORDERED_DISCONNECT"   -> s3
        [] OTHER                              -> setState(s3, "ERROR")

onDisconnected(s, reason) ==
  LET s1 == setState(s, "DISCONNECTED")
      s2 == keep_alive_setEnable(s1, FALSE)
      s3 == con_timeout_setEnable(s2, FALSE)
  IN  CASE reason = "DR_HOST_NOT_FOUND"       -> setState(s3, "ERROR")
        [] reason = "DR_REMOTE_DISCONNECTED"  -> reconnect(s3)
        [] reason = "DR_SYSTEM_ERROR"         -> reconnect(s3)
        [] reason = "DR_RECV_BUFFER_OVERFLOW" -> setState(s3, "ERROR")
        [] reason = "DR_ORDERED_DISCONNECT"   -> s3
        [] OTHER                              -> setState(s3, "ERROR")

\* onDataReceived resetting the watchdog after the dispatch
onDataReceived_late_reset(s, msg) ==
  LET s1 == CASE s.state = "LOGGING_IN" -> setState(s, "LOGGING_IN_2")
              [] s.state = "LOGGING_IN_2" ->
                   LET s2 == setState(s, "LOGGED_IN")
                       s3 == keep_alive_setEnable(s2, TRUE)
                   IN  sendRequest(s3, "RQ_RX0")
              [] s.state = "LOGGED_IN" -> handleResponse(s, msg)
              [] OTHER -> s
  IN  con_timeout_reset(s1)

\* onDataReceived taking the first reply as the whole handshake
onDataReceived_skip(s, msg) ==
  LET s1 == con_timeout_reset(s)
  IN  CASE s1.state \in {"LOGGING_IN", "LOGGING_IN_2"} ->
             LET s2 == setState(s1, "LOGGED_IN")
                 s3 == keep_alive_setEnable(s2, TRUE)
             IN  sendRequest(s3, "RQ_RX0")
        [] s1.state = "LOGGED_IN" -> handleResponse(s1, msg)
        [] OTHER -> s1

onDataReceived(s, msg) ==
  LET s1 == con_timeout_reset(s)
  IN  CASE s1.state = "LOGGING_IN" -> setState(s1, "LOGGING_IN_2")
        [] s1.state = "LOGGING_IN_2" ->
             LET s2 == setState(s1, "LOGGED_IN")
                 s3 == keep_alive_setEnable(s2, TRUE)
             IN  sendRequest(s3, "RQ_RX0")
        [] s1.state = "LOGGED_IN" -> handleResponse(s1, msg)
        [] OTHER -> s1

\* onKeepaliveTimeout staying silent while voice is sent or received
onKeepaliveTimeout_quiet(s) ==
  IF tcp_isConnected(s) /\ ~s.is_receiving_voice /\ ~s.is_sending_voice
    THEN sendRequest(s, "RQ_P") ELSE s

onKeepaliveTimeout(s) ==
  IF tcp_isConnected(s) THEN sendRequest(s, "RQ_P") ELSE s

\* onConnectTimeout retrying without the disconnect
onConnectTimeout_nodisc(s) == reconnect(s)

onConnectTimeout(s) == reconnect(disconnect(s))

----------------------------------------------------------------------------
(* The state machine *)

\* the session as a record of the variables; fx and ret start afresh
Cur == [init_ok            |-> init_ok,
        signals_connected  |-> signals_connected,
        state              |-> state,
        connect_retry_cnt  |-> connect_retry_cnt,
        send_buffer_cnt    |-> send_buffer_cnt,
        send_buffer        |-> send_buffer,
        is_sending_voice   |-> is_sending_voice,
        is_receiving_voice |-> is_receiving_voice,
        keep_alive_timer   |-> keep_alive_timer,
        con_timeout_timer  |-> con_timeout_timer,
        tcp                |-> tcp,
        gsmh               |-> gsmh,
        fx                 |-> <<>>,
        ret                |-> 0]

\* a transmission is open after the writes of f: a voice payload was
\* written and no TX0 after it
RECURSIVE TxOpenAfter(_, _)
TxOpenAfter(f, b) ==
  IF f = <<>> THEN b
  ELSE TxOpenAfter(Tail(f),
         IF Head(f).k = "tcp_write" /\ Head(f).rq = "voice" THEN TRUE
         ELSE IF Head(f).k = "tcp_write" /\ Head(f).rq = "TX0" THEN FALSE
         ELSE b)

Apply(r) ==
  /\ tx_open' = TxOpenAfter(r.fx, tx_open)
  /\ init_ok' = r.init_ok
  /\ signals_connected' = r.signals_connected
  /\ state' = r.state
  /\ connect_retry_cnt' = r.connect_retry_cnt
  /\ send_buffer_cnt' = r.send_buffer_cnt
  /\ send_buffer' = r.send_buffer
  /\ is_sending_voice' = r.is_sending_voice
  /\ is_receiving_voice' = r.is_receiving_voice
  /\ keep_alive_timer' = r.keep_alive_timer
  /\ con_timeout_timer' = r.con_timeout_timer
  /\ tcp' = r.tcp
  /\ gsmh' = r.gsmh
  /\ fx' = r.fx
  /\ ret' = r.ret
  /\ cfg' = cfg

Op(name, n, r, len) == [name |-> name, n |-> n, r |-> r, len |-> len]

\* the samples of one writeSamples call: n samples of value v
Block(n, v) == [i \in 1..n |-> v]

\* the last k elements of a sequence
LastK(q, k) == SubSeq(q, Len(q) - k + 1, Len(q))

TransientReasons == {"DR_REMOTE_DISCONNECTED", "DR_SYSTEM_ERROR"}

Init ==
  /\ cfg \in {CfgKeys} \cup {CfgKeys \ {k} : k \in CfgKeys}
  /\ init_ok = QsoFrn(cfg).init_ok
  /\ signals_connected = QsoFrn(cfg).signals_connected
  /\ state = QsoFrn(cfg).state
  /\ connect_retry_cnt = QsoFrn(cfg).connect_retry_cnt
  /\ send_buffer_cnt = QsoFrn(cfg).send_buffer_cnt
  /\ send_buffer = QsoFrn(cfg).send_buffer
  /\ is_sending_voice = QsoFrn(cfg).is_sending_voice
  /\ is_receiving_voice = QsoFrn(cfg).is_receiving_voice
  /\ keep_alive_timer = QsoFrn(cfg).keep_alive_timer
  /\ con_timeout_timer = QsoFrn(cfg).con_timeout_timer
  /\ tcp = QsoFrn(cfg).tcp
  /\ gsmh = QsoFrn(cfg).gsmh
  /\ fx = QsoFrn(cfg).fx
  /\ ret = QsoFrn(cfg).ret
  /\ op = Op("QsoFrn", 0, "", 0)
  /\ streak = 0
  /\ accepted = <<>>
  /\ tx_open = FALSE

\* public operations, called by the owning module and the audio pipeline

Connect ==
  /\ Apply(connect(Cur))
  /\ op' = Op("connect", 0, "", 0)
  /\ UNCHANGED <<streak, accepted>>

Disconnect ==
  /\ Apply(disconnect(Cur))
  /\ op' = Op("disconnect", 0, "", 0)
  /\ UNCHANGED <<streak, accepted>>

WriteSamples ==
  \E n \in 0..MaxCount, v \in InSamples :
    /\ Apply(writeSamples(Cur, Block(n, v)))
    /\ op' = Op("writeSamples", n, "", 0)
    /\ accepted' = LastK(accepted \o SubSeq(Block(n, v), 1, ret'),
                         IF state = "LOGGED_IN" THEN send_buffer_cnt'
                                                ELSE Len(accepted))
    /\ UNCHANGED streak

FlushSamples ==
  /\ Apply(flushSamples(Cur))
  /\ op' = Op("flushSamples", 0, "", 0)
  /\ accepted' = IF send_buffer_cnt' = 0 THEN <<>> ELSE accepted
  /\ UNCHANGED streak

SquelchOpen ==
  \E is_open \in BOOLEAN :
    /\ Apply(squelchOpen(Cur, is_open))
    /\ op' = Op("squelchOpen", IF is_open THEN 1 ELSE 0, "", 0)
    /\ UNCHANGED <<streak, accepted>>

\* events of the transport; a signal without a slot runs no handler

OnConnected ==
  /\ tcp = "connecting"
  /\ LET c == [Cur EXCEPT !.tcp = "connected"]
     IN  Apply(IF signals_connected THEN onConnected(c) ELSE c)
  /\ op' = Op("onConnected", 0, "", 0)
  /\ streak' = IF signals_connected THEN 0 ELSE streak
  /\ UNCHANGED accepted

OnDisconnected ==
  \E reason \in Reasons :
    /\ tcp # "idle"
    /\ reason \in TransientReasons => connect_retry_cnt < MaxRetryCnt
    /\ LET c == [Cur EXCEPT !.tcp = "idle"]
       IN  Apply(IF signals_connected THEN onDisconnected(c, reason) ELSE c)
    /\ op' = Op("onDisconnected", 0, reason, 0)
    /\ streak' = IF signals_connected /\ reason \in TransientReasons
                   THEN streak + 1 ELSE streak
    /\ UNCHANGED accepted

OnDataReceived ==
  \E cmd \in Cmds, len \in Lens :
    /\ tcp = "connected"
    /\ cmd # "DT_VOICE_BUFFER" => len = 1
    /\ LET msg == [cmd |-> cmd, len |-> len]
       IN  Apply(IF signals_connected THEN onDataReceived(Cur, msg) ELSE Cur)
    /\ op' = Op("onDataReceived", 0, cmd, len)
    /\ UNCHANGED <<streak, accepted>>

\* expiry of the timers

OnKeepaliveTimeout ==
  /\ keep_alive_timer
  /\ signals_connected
  /\ Apply(onKeepaliveTimeout(Cur))
  /\ op' = Op("onKeepaliveTimeout", 0, "", 0)
  /\ UNCHANGED <<streak, accepted>>

OnConnectTimeout ==
  /\ con_timeout_timer
  /\ signals_connected
  /\ connect_retry_cnt < MaxRetryCnt
  /\ Apply(onConnectTimeout(Cur))
  /\ op' = Op("onConnectTimeout", 0, "", 0)
  /\ streak' = streak + 1
  /\ UNCHANGED accepted

Next ==
  \/ Connect
  \/ Disconnect
  \/ WriteSamples
  \/ FlushSamples
  \/ SquelchOpen
  \/ OnConnected
  \/ OnDisconnected
  \/ OnDataReceived
  \/ OnKeepaliveTimeout
  \/ OnConnectTimeout

Spec == Init /\ [][Next]_vars

\* the transport reports the outcome of every connect it was asked for
ConnectResolves == tcp = "connecting" /\ (OnConnected \/ OnDisconnected)

\* a running con_timeout_timer expires unless data arrives first
WatchdogOrData == OnConnectTimeout \/ OnDataReceived

\* the connection alone: the owner's connect() and disconnect(), the
\* events of the transport and the timers
NextLink ==
  \/ Connect
  \/ Disconnect
  \/ OnConnected
  \/ OnDisconnected
  \/ OnDataReceived
  \/ OnKeepaliveTimeout
  \/ OnConnectTimeout

SpecLink ==
  /\ Init
  /\ [][NextLink]_vars
  /\ WF_vars(ConnectResolves)
  /\ WF_vars(WatchdogOrData)

----------------------------------------------------------------------------
(* The audio path of a session that is logged in, with samples of several  *)
(* values within one writeSamples call.                                    *)

InSamplesWide == {-3, 1}

\* n samples, v and w alternating
BlockWide(n, v, w) == [i \in 1..n |-> IF i % 2 = 1 THEN v ELSE w]

\* the session after connect(), the connect success and the two replies
LoggedInSession ==
  LET m  == [cmd |-> "DT_IDLE", len |-> 1]
      s0 == connect(QsoFrn(CfgKeys))
      s1 == onConnected([s0 EXCEPT !.tcp = "connected", !.fx = <<>>])
      s2 == onDataReceived([s1 EXCEPT !.fx = <<>>], m)
  IN  onDataReceived([s2 EXCEPT !.fx = <<>>], m)

InitAudio ==
  /\ cfg = CfgKeys
  /\ init_ok = LoggedInSession.init_ok
  /\ signals_connected = LoggedInSession.signals_connected
  /\ state = LoggedInSession.state
  /\ connect_retry_cnt = LoggedInSession.connect_retry_cnt
  /\ send_buffer_cnt = LoggedInSession.send_buffer_cnt
  /\ send_buffer = LoggedInSession.send_buffer
  /\ is_sending_voice = LoggedInSession.is_sending_voice
  /\ is_receiving_voice = LoggedInSession.is_receiving_voice
  /\ keep_alive_timer = LoggedInSession.keep_alive_timer
  /\ con_timeout_timer = LoggedInSession.con_timeout_timer
  /\ tcp = LoggedInSession.tcp
  /\ gsmh = LoggedInSession.gsmh
  /\ fx = LoggedInSession.fx
  /\ ret = LoggedInSession.ret
  /\ op = Op("onDataReceived", 0, "DT_IDLE", 1)
  /\ streak = 0
  /\ accepted = <<>>
  /\ tx_open = FALSE

WriteSamplesWide ==
  \E n \in 0..MaxCount, v \in InSamplesWide, w \in InSamplesWide :
    /\ n < 2 => w = v
    /\ Apply(writeSamples(Cur, BlockWide(n, v, w)))
    /\ op' = Op("writeSamples", n, "", 0)
    /\ accepted' = LastK(accepted \o SubSeq(BlockWide(n, v, w), 1, ret'),
                         IF state = "LOGGED_IN" THEN send_buffer_cnt'
                                                ELSE Len(accepted))
    /\ UNCHANGED streak

NextAudio ==
  \/ WriteSamplesWide
  \/ FlushSamples
  \/ SquelchOpen
  \/ OnDataReceived
  \/ OnKeepaliveTimeout

SpecAudio == InitAudio /\ [][NextAudio]_vars

----------------------------------------------------------------------------
(* Observations on the effects of the last handler *)

TcpWrites(f) == SelectSeq(f, LAMBDA e : e.k = "tcp_write")

Count(f, k) == Len(SelectSeq(f, LAMBDA e : e.k = k))

Token(rq) == Fx("tcp_write", rq, Len(rq) + 1, <<>>)

IsVoice(e) == e.k = "tcp_write" /\ e.rq = "voice"

IsLogin(e) == e.k = "tcp_write" /\ e.rq = "login"

\* the last operation was a transient failure of the connection
IsTransientOp ==
  /\ signals_connected
  /\ \/ op.name = "onConnectTimeout"
     \/ op.name = "onDisconnected" /\ op.r \in TransientReasons

----------------------------------------------------------------------------
(* Reconnect policy *)

\* C1 (as amended): counting consecutive transient disconnects (remote
\* disconnect, system error, watchdog timeout) since the last connect
\* success, the (K+1)-th and every later one moves the session to Error
\* without a transport connect, and from then on no operation other than a
\* connect() call of the owner issues a transport connect.
C1_ErrorAfterKPlusOne ==
  /\ (IsTransientOp /\ streak >= MAX_CONNECT_RETRY_CNT + 1)
        => (state = "ERROR" /\ Count(fx, "tcp_connect") = 0)
  /\ (streak >= MAX_CONNECT_RETRY_CNT + 1 /\ op.name # "connect")
        => Count(fx, "tcp_connect") = 0

C1_Witness ==
  /\ IsTransientOp
  /\ streak = MAX_CONNECT_RETRY_CNT + 1
  /\ state = "ERROR"

\* C1 (as claimed): the K-th consecutive transient disconnect moves the
\* session to Error without a transport connect.
C1_ErrorAtKth ==
  (IsTransientOp /\ streak = MAX_CONNECT_RETRY_CNT)
    => (state = "ERROR" /\ Count(fx, "tcp_connect") = 0)

\* C2: a remote disconnect or system error that arrives while fewer than K
\* consecutive transient failures have happened since the last connect
\* success is answered by exactly one transport connect and the state ends
\* as Connecting.
C2_OneConnectPerDisconnect ==
  (/\ signals_connected
   /\ op.name = "onDisconnected"
   /\ op.r \in TransientReasons
   /\ streak - 1 < MAX_CONNECT_RETRY_CNT)
    => (Count(fx, "tcp_connect") = 1 /\ state = "CONNECTING")

C2_Witness ==
  /\ signals_connected
  /\ op.name = "onDisconnected"
  /\ op.r \in TransientReasons
  /\ streak = MAX_CONNECT_RETRY_CNT
  /\ state = "CONNECTING"
  /\ Count(fx, "tcp_connect") = 1

----------------------------------------------------------------------------
(* Uplink buffer *)

\* C3: in every state other than LoggedIn writeSamples(s, n) returns n,
\* writes nothing to the transport and leaves the fill count and the
\* transmit-authorized flag unchanged.
C3_MutedWhenNotLoggedIn ==
  [][(op'.name = "writeSamples" /\ state # "LOGGED_IN")
       => /\ ret' = op'.n
          /\ TcpWrites(fx') = <<>>
          /\ send_buffer_cnt' = send_buffer_cnt
          /\ is_sending_voice' = is_sending_voice]_vars

C3_Witness ==
  /\ op.name = "writeSamples"
  /\ state \in {"DISCONNECTED", "LOGGING_IN", "ERROR"}
  /\ op.n > BUFFER_SIZE
  /\ ret = op.n
  /\ send_buffer_cnt > 0
  /\ is_sending_voice

\* C4: while LoggedIn and authorized, with an empty buffer, writeSamples
\* with exactly BUFFER_SIZE samples writes one TX1 token and then one
\* payload of FRAME_COUNT x GSM_FRAME_SIZE bytes, as two writes in that
\* order, returns BUFFER_SIZE and leaves the fill count at 0.
C4_FullBufferSend ==
  [][(/\ op'.name = "writeSamples"
      /\ op'.n = BUFFER_SIZE
      /\ state = "LOGGED_IN"
      /\ is_sending_voice
      /\ send_buffer_cnt = 0)
       => /\ Len(TcpWrites(fx')) = 2
          /\ TcpWrites(fx')[1] = Token("TX1")
          /\ IsVoice(TcpWrites(fx')[2])
          /\ TcpWrites(fx')[2].n = FRAME_COUNT * GSM_FRAME_SIZE
          /\ ret' = BUFFER_SIZE
          /\ send_buffer_cnt' = 0]_vars

C4_Witness ==
  /\ op.name = "writeSamples"
  /\ op.n = BUFFER_SIZE
  /\ state = "LOGGED_IN"
  /\ is_sending_voice
  /\ ret = BUFFER_SIZE
  /\ send_buffer_cnt = 0
  /\ Len(TcpWrites(fx)) = 2
  /\ IsVoice(TcpWrites(fx)[2])

\* C5: while LoggedIn and not authorized, writeSamples(s, n) with n greater
\* than the remaining capacity returns the remaining capacity (less than n,
\* 0 when the buffer is full), writes nothing to the transport and leaves
\* the buffer full with the stored samples unchanged; a full buffer stays
\* full and unchanged across writeSamples calls while not authorized.
C5_BackpressureWhenNotAuthorized ==
  [][(op'.name = "writeSamples" /\ ~is_sending_voice)
       => /\ (state = "LOGGED_IN" /\ op'.n > BUFFER_SIZE - send_buffer_cnt)
               => /\ ret' = BUFFER_SIZE - send_buffer_cnt
                  /\ ret' < op'.n
                  /\ TcpWrites(fx') = <<>>
                  /\ send_buffer_cnt' = BUFFER_SIZE
                  /\ \A i \in 1..send_buffer_cnt :
                        send_buffer'[i] = send_buffer[i]
          /\ send_buffer_cnt = BUFFER_SIZE
               => /\ send_buffer_cnt' = BUFFER_SIZE
                  /\ send_buffer' = send_buffer
                  /\ TcpWrites(fx') = <<>>]_vars

C5_Witness ==
  /\ op.name = "writeSamples"
  /\ state = "LOGGED_IN"
  /\ ~is_sending_voice
  /\ ret > 0
  /\ ret < op.n
  /\ send_buffer_cnt = BUFFER_SIZE

\* the samples the encoder must be given at a flush: the accepted samples,
\* converted, followed by zeros
PaddedAccepted ==
  [i \in 1..BUFFER_SIZE |->
     IF i <= Len(accepted) THEN ToInt16(accepted[i]) ELSE 0]

\* C6: flushSamples() while LoggedIn with c > 0 samples in the buffer,
\* authorized or not, writes exactly one payload, encoded from the c
\* submitted samples followed by BUFFER_SIZE - c zeros, then a TX0 token
\* after it, and ends with the transmit-authorized flag false and the fill
\* count 0; in every state flushSamples() signals all-samples-flushed to
\* the source exactly once.
C6_FlushPadsAndStops ==
  [][op'.name = "flushSamples"
       => /\ Count(fx', "sourceAllSamplesFlushed") = 1
          /\ (state = "LOGGED_IN" /\ send_buffer_cnt > 0)
               => /\ Len(accepted) = send_buffer_cnt
                  /\ Len(SelectSeq(fx', IsVoice)) = 1
                  /\ SelectSeq(fx', IsVoice)[1].data = PaddedAccepted
                  /\ SelectSeq(fx', IsVoice)[1].n
                       = FRAME_COUNT * GSM_FRAME_SIZE
                  /\ TcpWrites(fx')[Len(TcpWrites(fx'))] = Token("TX0")
                  /\ IsVoice(TcpWrites(fx')[Len(TcpWrites(fx')) - 1])
                  /\ ~is_sending_voice'
                  /\ send_buffer_cnt' = 0]_vars

C6_Witness ==
  /\ op.name = "flushSamples"
  /\ state = "LOGGED_IN"
  /\ Len(SelectSeq(fx, IsVoice)) = 1
  /\ SelectSeq(fx, IsVoice)[1].data[1] # 0
  /\ SelectSeq(fx, IsVoice)[1].data[BUFFER_SIZE] = 0
  /\ Count(fx, "sourceAllSamplesFlushed") = 1
  /\ ~is_sending_voice

----------------------------------------------------------------------------
(* Inbound messages *)

\* C7: while LoggedIn an inbound message tagged as voice payload whose
\* length is not 3 + FRAME_COUNT x GSM_FRAME_SIZE is dropped: no sink
\* write, no transport write, and no change of the connection state, the
\* transmit-authorized flag, the receiving-voice flag or the fill count.
C7_ShortVoiceDropped ==
  [][(/\ op'.name = "onDataReceived"
      /\ signals_connected
      /\ state = "LOGGED_IN"
      /\ op'.r = "DT_VOICE_BUFFER"
      /\ op'.len # 3 + FRAME_COUNT * GSM_FRAME_SIZE)
       => /\ Count(fx', "sinkWriteSamples") = 0
          /\ TcpWrites(fx') = <<>>
          /\ state' = state
          /\ is_sending_voice' = is_sending_voice
          /\ is_receiving_voice' = is_receiving_voice
          /\ send_buffer_cnt' = send_buffer_cnt]_vars

----------------------------------------------------------------------------
(* Login handshake *)

\* the order of the tagged fields the server expects: version, email,
\* credential, callsign/user, client type, band/channel, description,
\* country, locality, network name
ExpectedLogin ==
  << <<"VX", "VERSION">>, <<"EA", "EMAIL_ADDRESS">>, <<"PW", "DYN_PASSWORD">>,
     <<"ON", "CALLSIGN_AND_USER">>, <<"CL", "CLIENT_TYPE">>,
     <<"BC", "BAND_AND_CHANNEL">>, <<"DS", "DESCRIPTION">>,
     <<"NN", "COUNTRY">>, <<"CT", "CITY_CITY_PART">>, <<"NT", "NET">> >>

\* C8: on every transport connect success the session resets the failure
\* counter, arms the inactivity watchdog, writes exactly one login message
\* with the fields in the expected order and ends in LoggingIn; no other
\* operation writes a login message.
C8_LoginOnConnect ==
  /\ (op.name = "onConnected" /\ signals_connected)
        => /\ connect_retry_cnt = 0
           /\ con_timeout_timer
           /\ Len(TcpWrites(fx)) = 1
           /\ IsLogin(TcpWrites(fx)[1])
           /\ TcpWrites(fx)[1].data = ExpectedLogin
           /\ state = "LOGGING_IN"
  /\ op.name # "onConnected" => SelectSeq(fx, IsLogin) = <<>>

C8_Witness ==
  /\ op.name = "onConnected"
  /\ signals_connected
  /\ state = "LOGGING_IN"
  /\ Len(SelectSeq(fx, IsLogin)) = 1
  /\ streak = 0

\* C9: from LoggingIn any inbound message moves the state to LoggingIn2
\* and any inbound message in LoggingIn2 moves it to LoggedIn, one step per
\* message; the step into LoggedIn arms the keep-alive timer and writes
\* exactly one RX0 token.
C9_TwoStepHandshake ==
  [][(op'.name = "onDataReceived" /\ signals_connected)
       => /\ state = "LOGGING_IN"
               => /\ state' = "LOGGING_IN_2"
                  /\ TcpWrites(fx') = <<>>
                  /\ keep_alive_timer' = keep_alive_timer
          /\ state = "LOGGING_IN_2"
               => /\ state' = "LOGGED_IN"
                  /\ keep_alive_timer'
                  /\ TcpWrites(fx') = <<Token("RX0")>>
          /\ state' = "LOGGED_IN"
               => state \in {"LOGGING_IN_2", "LOGGED_IN"}]_vars

C9_Witness ==
  /\ op.name = "onDataReceived"
  /\ state = "LOGGED_IN"
  /\ keep_alive_timer
  /\ TcpWrites(fx) = <<Token("RX0")>>

----------------------------------------------------------------------------
(* Configuration *)

\* C10: if a required configuration field is missing at construction,
\* initOk() is false forever and no operation, connect() included, ever
\* issues a transport connect.
C10_NoConnectWithoutConfig ==
  cfg # CfgKeys => (~initOk(Cur) /\ Count(fx, "tcp_connect") = 0)

----------------------------------------------------------------------------
(* Connection lifecycle *)

FatalReasons == {"DR_HOST_NOT_FOUND", "DR_RECV_BUFFER_OVERFLOW", "DR_UNKNOWN"}

\* C11: a transport disconnect is handled by its reason: host-not-found,
\* receive-buffer-overflow and any unknown reason end in Error with no
\* connect; remote-disconnect and system-error run the reconnect policy
\* (the failure counter grows by one, then either one connect and
\* Connecting, or Error and no connect); an ordered disconnect ends in
\* Disconnected with no connect and the failure counter unchanged.  In
\* every case both timers are disarmed.
C11_DisconnectByReason ==
  [][(op'.name = "onDisconnected" /\ signals_connected)
       => /\ ~keep_alive_timer'
          /\ ~con_timeout_timer'
          /\ Count(fx', "keep_alive_disable") = 1
          /\ Count(fx', "con_timeout_disable") = 1
          /\ op'.r \in FatalReasons
               => (state' = "ERROR" /\ Count(fx', "tcp_connect") = 0)
          /\ op'.r \in TransientReasons
               => /\ connect_retry_cnt' = connect_retry_cnt + 1
                  /\ \/ state' = "CONNECTING" /\ Count(fx', "tcp_connect") = 1
                     \/ state' = "ERROR" /\ Count(fx', "tcp_connect") = 0
          /\ op'.r = "DR_ORDERED_DISCONNECT"
               => /\ state' = "DISCONNECTED"
                  /\ Count(fx', "tcp_connect") = 0
                  /\ connect_retry_cnt' = connect_retry_cnt]_vars

C11_Witness ==
  /\ signals_connected
  /\ op.name = "onDisconnected"
  /\ op.r = "DR_RECV_BUFFER_OVERFLOW"
  /\ state = "ERROR"
  /\ connect_retry_cnt > 0
  /\ Count(fx, "con_timeout_disable") = 1

\* the members of the session, without the observations
Members == <<init_ok, state, connect_retry_cnt, send_buffer_cnt, send_buffer,
             is_sending_voice, is_receiving_voice, keep_alive_timer,
             con_timeout_timer, tcp, gsmh>>

\* every effect of kind k in f comes after an effect of kind before
After(f, k, before) ==
  \A i \in 1..Len(f) :
    f[i].k = k => \E j \in 1..(i - 1) : f[j].k = before

\* C12: disconnect() in any state leaves the session Disconnected with
\* both timers disarmed and the transport closed if it was connected; the
\* timers are disarmed before the transport is closed; a second
\* disconnect() right after it changes nothing.
C12_DisconnectIdempotent ==
  [][op'.name = "disconnect"
       => /\ state' = "DISCONNECTED"
          /\ ~keep_alive_timer'
          /\ ~con_timeout_timer'
          /\ tcp' # "connected"
          /\ Count(fx', "tcp_disconnect") = (IF tcp = "connected" THEN 1 ELSE 0)
          /\ After(fx', "tcp_disconnect", "keep_alive_disable")
          /\ After(fx', "tcp_disconnect", "con_timeout_disable")
          /\ op.name = "disconnect"
               => /\ Members' = Members
                  /\ Count(fx', "stateChange") = 0
                  /\ Count(fx', "tcp_disconnect") = 0]_vars

C12_Witness ==
  /\ op.name = "disconnect"
  /\ state = "DISCONNECTED"
  /\ tcp = "idle"
  /\ Count(fx, "tcp_disconnect") = 1
  /\ Count(fx, "stateChange") = 1

\* the session state before effect i of f, s0 being the state before f
StateBefore(f, i, s0) ==
  LET idx == {j \in 1..(i - 1) : f[j].k = "stateChange"}
  IN  IF idx = {} THEN s0
      ELSE f[CHOOSE j \in idx : \A l \in idx : l <= j].rq

\* the session state in which the connect() that made effect i was entered
ConnectEntryState(f, i, s0) ==
  IF i > 1 /\ f[i - 1].k = "stateChange" /\ f[i - 1].rq = "CONNECTING"
    THEN StateBefore(f, i - 1, s0)
    ELSE StateBefore(f, i, s0)

\* C13: a transport connect is issued, and the state moved to Connecting,
\* only when the session state is Disconnected; no connect is issued while
\* the state is Connecting, Connected, LoggingIn, LoggingIn2, LoggedIn or
\* Error.
C13_ConnectOnlyFromDisconnected ==
  [][\A i \in 1..Len(fx') :
       fx'[i].k = "tcp_connect"
         => ConnectEntryState(fx', i, state) = "DISCONNECTED"]_vars

----------------------------------------------------------------------------
(* Uplink buffer invariants *)

\* C14: the fill count stays within 0..BUFFER_SIZE, and a stored sample is
\* never overwritten before it is encoded and sent: the buffer holds the
\* accepted samples in order; an operation either sends a payload that
\* carries the stored samples in place, or leaves them where they are; a
\* full buffer that is not sent is left as it is and no sample is accepted.
C14_FillBoundedNoOverwrite ==
  [][/\ send_buffer_cnt' \in 0..BUFFER_SIZE
     /\ Len(accepted') = send_buffer_cnt'
     /\ \A i \in 1..Len(accepted') :
           send_buffer'[i] = ToInt16(accepted'[i])
     /\ IF SelectSeq(fx', IsVoice) = <<>>
          THEN /\ send_buffer_cnt' >= send_buffer_cnt
               /\ \A i \in 1..send_buffer_cnt :
                     send_buffer'[i] = send_buffer[i]
          ELSE \A i \in 1..send_buffer_cnt :
                 SelectSeq(fx', IsVoice)[1].data[i] = send_buffer[i]
     /\ (send_buffer_cnt = BUFFER_SIZE /\ SelectSeq(fx', IsVoice) = <<>>)
          => /\ send_buffer' = send_buffer
             /\ (op'.name = "writeSamples" /\ state = "LOGGED_IN")
                  => ret' = 0]_vars

\* the buffer was filled across two calls with samples of two values and
\* then drained by a send
C14_Witness ==
  /\ op.name = "writeSamples"
  /\ op.n < BUFFER_SIZE
  /\ send_buffer_cnt = 0
  /\ Len(SelectSeq(fx, IsVoice)) = 1
  /\ \E i, j \in 1..BUFFER_SIZE :
       /\ SelectSeq(fx, IsVoice)[1].data[i] > 0
       /\ SelectSeq(fx, IsVoice)[1].data[j] < 0

----------------------------------------------------------------------------
(* Codec contexts *)

\* the context sendVoiceData passes to gsm_encode
EncodeContext == gsmh

\* the context handleAudioData passes to gsm_decode
DecodeContext == gsmh

\* C15: one codec context per direction: a handler that only decodes leaves
\* the encode context as it was, and a handler that only encodes leaves the
\* decode context as it was.
C15_ContextPerDirection ==
  [][/\ (Count(fx', "gsm_decode") > 0 /\ Count(fx', "gsm_encode") = 0)
          => EncodeContext' = EncodeContext
     /\ (Count(fx', "gsm_encode") > 0 /\ Count(fx', "gsm_decode") = 0)
          => DecodeContext' = DecodeContext]_vars

----------------------------------------------------------------------------
(* squelchOpen *)

\* squelchOpen leaves the fill count, the flag and the state as they were
SquelchOpenKeeps ==
  /\ send_buffer_cnt' = send_buffer_cnt
  /\ send_buffer' = send_buffer
  /\ is_sending_voice' = is_sending_voice
  /\ state' = state

\* C16 as stated: squelchOpen(true) sends exactly one TX0 whatever the fill
\* count and squelchOpen(false) sends nothing; the fill count, the flag and
\* the state are unchanged.
C16_SquelchOpenSendsTx0 ==
  [][op'.name = "squelchOpen"
       => /\ TcpWrites(fx') = IF op'.n = 1 THEN <<Token("TX0")>> ELSE <<>>
          /\ SquelchOpenKeeps]_vars

\* C16 amended: squelchOpen(true) sends exactly one TX0 whatever the fill
\* count if the transport is connected, and nothing if it is not;
\* squelchOpen(false) sends nothing; the fill count, the flag and the state
\* are unchanged.
C16_SquelchOpenSendsTx0IfConnected ==
  [][op'.name = "squelchOpen"
       => /\ TcpWrites(fx') = IF op'.n = 1 /\ tcp = "connected"
                                THEN <<Token("TX0")>> ELSE <<>>
          /\ SquelchOpenKeeps]_vars

\* squelchOpen(true) with an empty buffer has sent TX0
C16_Witness ==
  /\ op.name = "squelchOpen"
  /\ op.n = 1
  /\ send_buffer_cnt = 0
  /\ TcpWrites(fx) = <<Token("TX0")>>

----------------------------------------------------------------------------
(* Dispatch of inbound messages while logged in *)

\* C17: while LOGGED_IN a message is dispatched on its first byte: DT_DO_TX
\* sets is_sending_voice and calls sourceResumeOutput once; DT_IDLE, the
\* list and broadcast codes and any unknown code leave the state, the flag
\* and the fill count as they were, write nothing to the transport and
\* nothing to the sink.
C17_DispatchOnFirstByte ==
  [][(op'.name = "onDataReceived" /\ state = "LOGGED_IN")
       => CASE op'.r = "DT_DO_TX" ->
                 /\ is_sending_voice'
                 /\ Count(fx', "sourceResumeOutput") = 1
                 /\ state' = state
            [] op'.r = "DT_VOICE_BUFFER" -> TRUE
            [] OTHER ->
                 /\ state' = state
                 /\ is_sending_voice' = is_sending_voice
                 /\ send_buffer_cnt' = send_buffer_cnt
                 /\ send_buffer' = send_buffer
                 /\ TcpWrites(fx') = <<>>
                 /\ Count(fx', "sinkWriteSamples") = 0
                 /\ Count(fx', "sourceResumeOutput") = 0]_vars

\* an unknown code was handled while logged in, authorized and with samples
\* in the buffer
C17_Witness ==
  /\ op.name = "onDataReceived"
  /\ op.r = "DT_OTHER"
  /\ state = "LOGGED_IN"
  /\ Count(fx, "stateChange") = 0
  /\ is_sending_voice
  /\ send_buffer_cnt > 0

----------------------------------------------------------------------------
(* Inbound voice *)

\* the decodes and the writes to the sink among the effects f, in order
DecodeSteps(f) ==
  SelectSeq(f, LAMBDA e : e.k \in {"gsm_decode", "sinkWriteSamples"})

\* offset in the payload of the packed unit i (from 0)
UnitOffset(i) == 3 + i * GSM_FRAME_SIZE

\* the block the unit i decodes to: its first sub-frame, then its second
UnitBlock(i) ==
  [j \in 1..PCM_FRAME_SIZE |->
     IF j <= PCM_FRAME_SIZE \div 2 THEN Decoded(UnitOffset(i))
                                   ELSE Decoded(UnitOffset(i) + 33)]

\* C18: while LOGGED_IN a voice payload of 3 + FRAME_COUNT * GSM_FRAME_SIZE
\* bytes gives exactly FRAME_COUNT writes to the sink of PCM_FRAME_SIZE
\* samples each; the i-th write is the decode of the i-th unit and is made
\* before the next unit is decoded; BUFFER_SIZE samples are delivered.
C18_VoicePayloadDecoded ==
  [][(/\ op'.name = "onDataReceived"
      /\ state = "LOGGED_IN"
      /\ op'.r = "DT_VOICE_BUFFER"
      /\ op'.len = 3 + FRAME_COUNT * GSM_FRAME_SIZE)
       => /\ Len(DecodeSteps(fx')) = 3 * FRAME_COUNT
          /\ Count(fx', "sinkWriteSamples") = FRAME_COUNT
          /\ Count(fx', "sinkWriteSamples") * PCM_FRAME_SIZE = BUFFER_SIZE
          /\ \A i \in 0..(FRAME_COUNT - 1) :
                /\ DecodeSteps(fx')[3 * i + 1].k = "gsm_decode"
                /\ DecodeSteps(fx')[3 * i + 1].n = UnitOffset(i)
                /\ DecodeSteps(fx')[3 * i + 2].k = "gsm_decode"
                /\ DecodeSteps(fx')[3 * i + 2].n = UnitOffset(i) + 33
                /\ DecodeSteps(fx')[3 * i + 3] =
                     Fx("sinkWriteSamples", "", PCM_FRAME_SIZE, UnitBlock(i))
      ]_vars

\* a voice payload of the valid length was decoded while logged in
C18_Witness ==
  /\ op.name = "onDataReceived"
  /\ op.r = "DT_VOICE_BUFFER"
  /\ op.len = 3 + FRAME_COUNT * GSM_FRAME_SIZE
  /\ state = "LOGGED_IN"
  /\ Count(fx, "sinkWriteSamples") = FRAME_COUNT

----------------------------------------------------------------------------
(* Inactivity watchdog *)

\* C19: every inbound data event resets con_timeout_timer, in every state,
\* exactly once and before anything the dispatch on the state does.
C19_ResetBeforeDispatch ==
  [][(op'.name = "onDataReceived" /\ signals_connected)
       => /\ Len(fx') >= 1
          /\ fx'[1].k = "con_timeout_reset"
          /\ Count(fx', "con_timeout_reset") = 1]_vars

\* data arrived outside the handshake and the logged-in state, and the only
\* thing done was the reset
C19_Witness ==
  /\ op.name = "onDataReceived"
  /\ signals_connected
  /\ state = "CONNECTING"
  /\ Len(fx) = 1
  /\ fx[1].k = "con_timeout_reset"

\* C20: when the inactivity watchdog fires the session first disconnects
\* in full (DISCONNECTED, both timers disabled, transport closed) and then
\* runs reconnect once: the failure counter grows by exactly 1 and at most
\* one transport connect is issued, after the disconnect.
C20_TimeoutDisconnectsThenReconnects ==
  [][op'.name = "onConnectTimeout"
       => /\ Len(fx') >= 4
          /\ fx'[1] = Fx("stateChange", "DISCONNECTED", 0, <<>>)
          /\ fx'[2].k = "keep_alive_disable"
          /\ fx'[3].k = "con_timeout_disable"
          /\ fx'[4].k = "tcp_disconnect"
          /\ Count(fx', "tcp_disconnect") = 1
          /\ ~keep_alive_timer'
          /\ ~con_timeout_timer'
          /\ connect_retry_cnt' = connect_retry_cnt + 1
          /\ Count(fx', "tcp_connect") <= 1
          /\ IF connect_retry_cnt < MAX_CONNECT_RETRY_CNT
               THEN /\ Count(fx', "tcp_connect") = 1
                    /\ fx'[Len(fx')].k = "tcp_connect"
                    /\ state' = "CONNECTING"
                    /\ tcp' = "connecting"
               ELSE /\ Count(fx', "tcp_connect") = 0
                    /\ state' = "ERROR"
                    /\ tcp' = "idle"]_vars

\* the watchdog fired in a logged-in session and one connect was issued
C20_Witness ==
  /\ op.name = "onConnectTimeout"
  /\ state = "CONNECTING"
  /\ connect_retry_cnt = 1
  /\ Count(fx, "tcp_disconnect") = 1
  /\ Count(fx, "tcp_connect") = 1
  /\ Count(fx, "keep_alive_disable") = 1

----------------------------------------------------------------------------
(* Timers *)

\* C21: in every reachable state both timers are disabled whenever the
\* state is DISCONNECTED, CONNECTING or ERROR, and keep_alive_timer is
\* enabled only when the state is LOGGED_IN.
C21_TimersOffOutsideSession ==
  /\ state \in {"DISCONNECTED", "CONNECTING", "ERROR"}
       => (~keep_alive_timer /\ ~con_timeout_timer)
  /\ keep_alive_timer => state = "LOGGED_IN"

\* C22: an expiry of keep_alive_timer writes exactly one P token if the
\* transport is connected and nothing if it is not; it never changes the
\* state, the fill count or is_sending_voice, also while voice is being
\* sent or received.
C22_KeepaliveSendsPing ==
  [][op'.name = "onKeepaliveTimeout"
       => /\ TcpWrites(fx') = IF tcp = "connected" THEN <<Token("P")>>
                                                    ELSE <<>>
          /\ fx' = TcpWrites(fx')
          /\ state' = state
          /\ send_buffer_cnt' = send_buffer_cnt
          /\ send_buffer' = send_buffer
          /\ is_sending_voice' = is_sending_voice
          /\ is_receiving_voice' = is_receiving_voice]_vars

\* the timer expired while logged in, authorized, with samples buffered and
\* voice received, and the ping was written
C22_Witness ==
  /\ op.name = "onKeepaliveTimeout"
  /\ state = "LOGGED_IN"
  /\ is_sending_voice
  /\ is_receiving_voice
  /\ send_buffer_cnt > 0
  /\ TcpWrites(fx) = <<Token("P")>>

----------------------------------------------------------------------------
(* Packing geometry *)

\* the sub-frames the calls of kind k among the effects f touch, in order:
\* offset from base and size in bytes
SubFrames(f, k, base) ==
  LET c == SelectSeq(f, LAMBDA e : e.k = k)
  IN  [i \in 1..Len(c) |-> <<c[i].n - base, c[i].data[2]>>]

\* the sub-frames sendVoiceData writes into gsm_data
EncoderLayout ==
  SubFrames(EncodeFrames([Cur EXCEPT !.gsmh = gsm_create], 0).fx,
            "gsm_encode", 0)

\* l is FRAME_COUNT units: the first sub-frame of unit n at
\* n * GSM_FRAME_SIZE, the second right after it, GSM_FRAME_SIZE bytes
\* together
Packed(l) ==
  /\ Len(l) = 2 * FRAME_COUNT
  /\ \A n \in 0..(FRAME_COUNT - 1) :
       /\ l[2 * n + 1][1] = n * GSM_FRAME_SIZE
       /\ l[2 * n + 2][1] = l[2 * n + 1][1] + l[2 * n + 1][2]
       /\ l[2 * n + 1][2] + l[2 * n + 2][2] = GSM_FRAME_SIZE

\* l is the layout u, once for every payload encoded
Repeats(l, u) ==
  /\ Len(l) % Len(u) = 0
  /\ \A j \in 1..Len(l) : l[j] = u[((j - 1) % Len(u)) + 1]

\* C23 as stated: the encoder writes the two outputs of block n at
\* n * GSM_FRAME_SIZE and right after it, disjoint and GSM_FRAME_SIZE bytes
\* together, and the decoder reads the two sub-frames of unit n from the
\* same two offsets with the same two sizes.
C23_SameGeometry ==
  [][/\ Count(fx', "gsm_encode") > 0
          => /\ Packed(EncoderLayout)
             /\ Repeats(SubFrames(fx', "gsm_encode", 0), EncoderLayout)
     /\ Count(fx', "gsm_decode") > 0
          => SubFrames(fx', "gsm_decode", 3) = EncoderLayout]_vars

\* C23 amended: both directions cover unit n with two adjacent sub-frames
\* starting at n * GSM_FRAME_SIZE and GSM_FRAME_SIZE bytes together, but
\* the split differs: the encoder writes 32 bytes and then 33 at offset
\* + 32, the decoder reads 33 bytes and then 32 at offset + 33.
C23_MirroredGeometry ==
  [][/\ Count(fx', "gsm_encode") > 0
          => /\ Packed(EncoderLayout)
             /\ Repeats(SubFrames(fx', "gsm_encode", 0), EncoderLayout)
     /\ Count(fx', "gsm_decode") > 0
          => /\ Packed(SubFrames(fx', "gsm_decode", 3))
             /\ \A n \in 0..(FRAME_COUNT - 1) :
                   /\ SubFrames(fx', "gsm_decode", 3)[2 * n + 1][2] =
                        EncoderLayout[2 * n + 2][2]
                   /\ SubFrames(fx', "gsm_decode", 3)[2 * n + 2][2] =
                        EncoderLayout[2 * n + 1][2]
                   /\ SubFrames(fx', "gsm_decode", 3)[2 * n + 2][1] =
                        n * GSM_FRAME_SIZE + 33
                   /\ EncoderLayout[2 * n + 2][1] =
                        n * GSM_FRAME_SIZE + 32]_vars

\* a voice payload was decoded after the codec context had encoded one
C23_Witness ==
  /\ op.name = "onDataReceived"
  /\ Len(SubFrames(fx, "gsm_decode", 3)) = 2 * FRAME_COUNT
  /\ SubFrames(fx, "gsm_decode", 3)[2] = <<33, 32>>
  /\ EncoderLayout[2] = <<32, 33>>

----------------------------------------------------------------------------
(* Sessions *)

\* C24: whenever the state enters LOGGED_IN, is_sending_voice is false and
\* the fill count is 0: nothing of an earlier session is left to be sent.
C24_FreshUplinkOnLogin ==
  [][(state' = "LOGGED_IN" /\ state # "LOGGED_IN")
       => (~is_sending_voice' /\ send_buffer_cnt' = 0)]_vars

\* the write e is a floor-control token or a voice payload
IsTraffic(e) ==
  e.k = "tcp_write" /\ e.rq \in {"RX0", "TX0", "TX1", "P", "voice"}

\* C25: a floor-control token (RX0, TX0, TX1, P) or a voice payload is
\* written only by an operation that starts or ends in LOGGED_IN, and an
\* operation that starts in CONNECTED, LOGGING_IN or LOGGING_IN_2 and does
\* not reach LOGGED_IN writes at most the login message.
C25_TrafficGatedByState ==
  [][/\ SelectSeq(fx', IsTraffic) # <<>>
          => (state = "LOGGED_IN" \/ state' = "LOGGED_IN")
     /\ (state \in {"CONNECTED", "LOGGING_IN", "LOGGING_IN_2"}
          /\ state' # "LOGGED_IN")
          => \A i \in 1..Len(TcpWrites(fx')) : IsLogin(TcpWrites(fx')[i])
    ]_vars

----------------------------------------------------------------------------
(* End of a transmission *)

\* C26: if a voice payload has been written since the last TX0, a
\* flushSamples() call while LOGGED_IN writes a TX0 token and leaves
\* is_sending_voice false, whatever the number of samples in the buffer,
\* an empty buffer included.
C26_FlushClosesTransmission ==
  [][(op'.name = "flushSamples" /\ state = "LOGGED_IN" /\ tx_open)
       => /\ Count(SelectSeq(fx', LAMBDA e : e = Token("TX0")),
                   "tcp_write") >= 1
          /\ ~is_sending_voice'
          /\ ~tx_open']_vars

----------------------------------------------------------------------------
(* Termination of the automatic reconnection *)

\* the reconnect policy: attempts, counter and the ERROR state
ReconnectBounded ==
  [][/\ (op'.name \in {"onDisconnected", "onConnectTimeout"}
          /\ Count(fx', "tcp_connect") > 0)
         => /\ Count(fx', "tcp_connect") = 1
            /\ streak' <= MAX_CONNECT_RETRY_CNT
            /\ connect_retry_cnt' = streak'
     /\ (connect_retry_cnt' = 0 /\ connect_retry_cnt # 0)
         => op'.name = "onConnected"
     /\ (state = "ERROR" /\ op'.name # "connect")
         => Count(fx', "tcp_connect") = 0]_vars

\* C27: reconnect issues at most MAX_CONNECT_RETRY_CNT connects between two
\* connect successes, one for each failure; connect_retry_cnt is set to 0
\* only by a connect success; in ERROR no connect is issued unless the
\* owner calls connect(); and a pending connect of a wired session leads
\* to a connect success or to ERROR, unless the transport reports an
\* ordered disconnect.
C27_ReconnectTerminates ==
  /\ ReconnectBounded
  /\ (signals_connected /\ tcp = "connecting")
       ~> \/ tcp = "connected"
          \/ state = "ERROR"
          \/ op.name = "onDisconnected" /\ op.r = "DR_ORDERED_DISCONNECT"

\* every attempt failed and the session gave up
C27_Witness ==
  /\ op.name = "onDisconnected"
  /\ op.r = "DR_SYSTEM_ERROR"
  /\ state = "ERROR"
  /\ tcp = "idle"
  /\ connect_retry_cnt = MAX_CONNECT_RETRY_CNT + 1
  /\ streak = MAX_CONNECT_RETRY_CNT + 1

----------------------------------------------------------------------------
(* Supervision of a live connection *)

\* the states of a session that waits for or talks to the server
LiveStates == {"LOGGING_IN", "LOGGING_IN_2", "LOGGED_IN"}

\* C28: in LOGGING_IN, LOGGING_IN_2 and LOGGED_IN con_timeout_timer is
\* enabled, in LOGGED_IN keep_alive_timer is enabled as well, and a session
\* does not stay in these states forever unless data keeps arriving.
C28_SupervisedWhileLive ==
  /\ [](state \in LiveStates => con_timeout_timer)
  /\ [](state = "LOGGED_IN" => keep_alive_timer)
  /\ (<>[](state \in LiveStates)) => []<><<OnDataReceived>>_vars

\* the watchdog fired in a session that had been logged in and authorized,
\* and the session left the live states
C28_Witness ==
  /\ op.name = "onConnectTimeout"
  /\ is_sending_voice
  /\ state \notin LiveStates
  /\ ~con_timeout_timer
  /\ ~keep_alive_timer

====
